---- MODULE Spec2Model ----
(***************************************************************************)
(* A model of bitexpr's tokenizer (src/src/tokenizer.rs).                  *)
(*                                                                         *)
(* tokenize(expression) is a loop over a peekable character iterator.  The *)
(* state is the expression, the iterator's position (chars), the token     *)
(* vector (tokens) and the value the call has returned, if any (result).   *)
(* One action is one iteration of the outer `while let` loop, one per      *)
(* match arm; the two inner loops (string literal, identifier) are         *)
(* computed by the recursive operators ScanString and ScanIdentifier.  What *)
(* an arm does is a function of the text and the position (OnEqual, ...),  *)
(* so that tokenize is also available as a function of any text.           *)
(*                                                                         *)
(* A character is a one-character string, a text a sequence of characters. *)
(***************************************************************************)
EXTENDS Integers, Sequences, FiniteSets, TLC

VARIABLES expression, chars, tokens, result

vars == <<expression, chars, tokens, result>>

----------------------------------------------------------------------------
(* Characters                                                              *)

Space == " "
Quote == "\""
Backslash == "\\"
Newline == "\n"
Tab == "\t"

\* char::is_alphanumeric on the characters of the model's alphabet.
Alphanumeric ==
    {"a", "g", "i", "l", "n", "o", "q", "r", "s", "t", "π",
     "0", "1", "2", "3", "4", "9"}

\* u8-style classification: ASCII letters and digits only.
is_ascii_alphanumeric(ch) == ch \in Alphanumeric \ {"π"}

is_alphanumeric(ch) == ch \in Alphanumeric

\* IsIdentifierChar with an unrecognised symbol accepted into the name.
IsIdentifierChar_WithSymbol(ch) ==
    is_alphanumeric(ch) \/ ch = "_" \/ ch = "." \/ ch = "@"

\* The condition of the identifier loop's first arm.
IsIdentifierChar(ch) == is_alphanumeric(ch) \/ ch = "_" \/ ch = "."

\* The characters with a match arm of their own in tokenize.
ArmChars ==
    {Space, "(", ")", ",", "+", "-", "*", "/", "%", "^",
     "=", "!", "<", ">", "&", "|", Quote}

\* Characters that reach the default arm and are neither identifier characters
\* nor a backslash: unrecognised symbols and whitespace other than ' '.
OtherChars == {"@", Tab}

----------------------------------------------------------------------------
(* Tokens, errors, results                                                 *)

Identifier(s) == [type |-> "Identifier", val |-> s]
Function(s) == [type |-> "Function", val |-> s]
StringLiteral(s) == [type |-> "StringLiteral", val |-> s]
Operator(op) == [type |-> "Operator", val |-> <<op>>]
OpenParenthesis == [type |-> "OpenParenthesis", val |-> <<>>]
CloseParenthesis == [type |-> "CloseParenthesis", val |-> <<>>]
Comma == [type |-> "Comma", val |-> <<>>]

\* The Debug form of an Operator: the name of the variant.
DebugName(op) ==
    CASE op = "Plus" -> <<"P", "l", "u", "s">>
      [] op = "Minus" -> <<"M", "i", "n", "u", "s">>
      [] op = "Multiply" -> <<"M", "u", "l", "t", "i", "p", "l", "y">>
      [] op = "Divide" -> <<"D", "i", "v", "i", "d", "e">>
      [] op = "Modulo" -> <<"M", "o", "d", "u", "l", "o">>
      [] op = "Power" -> <<"P", "o", "w", "e", "r">>
      [] op = "Equal" -> <<"E", "q", "u", "a", "l">>
      [] op = "NotEqual" -> <<"N", "o", "t", "E", "q", "u", "a", "l">>
      [] op = "Greater" -> <<"G", "r", "e", "a", "t", "e", "r">>
      [] op = "Less" -> <<"L", "e", "s", "s">>
      [] op = "GreaterEqual" ->
            <<"G", "r", "e", "a", "t", "e", "r", "E", "q", "u", "a", "l">>
      [] op = "LessEqual" -> <<"L", "e", "s", "s", "E", "q", "u", "a", "l">>
      [] op = "And" -> <<"A", "n", "d">>
      [] op = "Or" -> <<"O", "r">>

\* Display with a StringLiteral written without its quotes.
Display_Unquoted(tok) ==
    CASE tok.type = "Operator" -> DebugName(tok.val[1])
      [] tok.type = "OpenParenthesis" -> <<"(">>
      [] tok.type = "CloseParenthesis" -> <<")">>
      [] tok.type = "Comma" -> <<",">>
      [] OTHER -> tok.val

\* impl Display for Token: the text a token is written as.
Display(tok) ==
    CASE tok.type = "Identifier" -> tok.val
      [] tok.type = "Operator" -> DebugName(tok.val[1])
      [] tok.type = "OpenParenthesis" -> <<"(">>
      [] tok.type = "CloseParenthesis" -> <<")">>
      [] tok.type = "StringLiteral" -> <<Quote>> \o tok.val \o <<Quote>>
      [] tok.type = "Function" -> tok.val
      [] tok.type = "Comma" -> <<",">>

UnexpectedChar(c) == <<"UnexpectedChar", c>>
UnexpectedEndOfString == <<"UnexpectedEndOfString">>

Running == [kind |-> "Running", tokens |-> <<>>, err |-> <<>>]
Ok(toks) == [kind |-> "Ok", tokens |-> toks, err |-> <<>>]
Err(e) == [kind |-> "Err", tokens |-> <<>>, err |-> e]
\* The process ended by the allocator: tokens.push could not grow the vector.
Aborted == [kind |-> "Abort", tokens |-> <<>>, err |-> <<>>]

----------------------------------------------------------------------------
(* Inputs                                                                  *)

MaxLen == 3
MaxLexemes == 3
MaxBody == 5
MaxSingles == 3

\* Every text over S of length at most n.
TextsUpTo(S, n) == UNION {[1..k -> S] : k \in 0..n}

Alphabet ==
    {Space, "(", ")", ",", "+", "=", "!", "<", ">", "&", "|", Quote, Backslash,
     "a", "n", "_", ".", "@", Tab}

GeneralInputs == TextsUpTo(Alphabet, MaxLen)

\* The 14 operator lexemes and the 3 structural characters.
Lexemes ==
    {<<"+">>, <<"-">>, <<"*">>, <<"/">>, <<"%">>, <<"^">>,
     <<"=", "=">>, <<"!", "=">>, <<">">>, <<"<">>, <<">", "=">>, <<"<", "=">>,
     <<"&", "&">>, <<"|", "|">>, <<"(">>, <<")">>, <<",">>}

RECURSIVE JoinWithSpaces(_)
JoinWithSpaces(ls) ==
    IF Len(ls) = 0 THEN <<>>
    ELSE IF Len(ls) = 1 THEN ls[1]
    ELSE ls[1] \o <<Space>> \o JoinWithSpaces(Tail(ls))

\* Lexemes separated by exactly one space each.
OperatorInputs ==
    {JoinWithSpaces(ls) : ls \in UNION {[1..k -> Lexemes] : k \in 1..MaxLexemes}}

StringBodyChars == {Backslash, Quote, "n", "t", Space, "(", "="}

\* An opening quote and what follows it.
StringInputs == {<<Quote>> \o b : b \in TextsUpTo(StringBodyChars, MaxBody)}

\* The expression of main: (2 + 3 * sin(π/4)) / (sqrt(9) + log(100, 10)) - 2^3
WorkedExample ==
    <<"(", "2", Space, "+", Space, "3", Space, "*", Space, "s", "i", "n",
      "(", "π", "/", "4", ")", ")", Space, "/", Space, "(", "s", "q", "r",
      "t", "(", "9", ")", Space, "+", Space, "l", "o", "g", "(", "1", "0",
      "0", ",", Space, "1", "0", ")", ")", Space, "-", Space, "2", "^",
      "3">>

\* The characters that are a token on their own.
SingleChars == {"(", ")", ",", "+", "-", "*", "/", "%", "^"}

\* Structural and arithmetic characters with no separators.
SingleCharInputs == TextsUpTo(SingleChars, MaxSingles)

Inputs ==
    GeneralInputs \cup OperatorInputs \cup StringInputs \cup SingleCharInputs
        \cup {WorkedExample}

\* The capacity the token vector can grow to on text s before the allocation
\* fails.  A scan that consumes at least one character per token pushes at
\* most Len(s) tokens and never reaches it.
Capacity(s) == Len(s) + 1

----------------------------------------------------------------------------
(* The character iterator                                                  *)

\* chars.peek() is None at position i of text s.
AtEnd(s, i) == i > Len(s)

\* chars.peek(): the character at position i of s, "" for None.
Peek(s, i) == IF AtEnd(s, i) THEN "" ELSE s[i]

----------------------------------------------------------------------------
(* One iteration of the outer loop: what the arm does at position i of s   *)

\* The arm consumed up to position pos and pushed nothing.
Skip(pos) == [kind |-> "Skip", pos |-> pos, tok |-> Comma, err |-> <<>>]

\* The arm pushed tok and left the iterator at pos.
Pushed(tok, pos) == [kind |-> "Push", pos |-> pos, tok |-> tok, err |-> <<>>]

\* The arm returned Err(e) with the iterator at pos.
Failed(e, pos) == [kind |-> "Err", pos |-> pos, tok |-> Comma, err |-> e]

\* OnSpace handled like a name of length zero: a token is pushed for it.
OnSpace_EmptyName(s, i) == Pushed(Identifier(<<>>), i + 1)

OnSpace(s, i) == Skip(i + 1)

OnOpenParen(s, i) == Pushed(OpenParenthesis, i + 1)

OnCloseParen(s, i) == Pushed(CloseParenthesis, i + 1)

OnComma(s, i) == Pushed(Comma, i + 1)

\* OnPlus with a compound "+=" read as one operator.
OnPlus_Compound(s, i) ==
    IF Peek(s, i + 1) = "="
    THEN Pushed(Operator("Plus"), i + 2)
    ELSE Pushed(Operator("Plus"), i + 1)

OnPlus(s, i) == Pushed(Operator("Plus"), i + 1)

OnMinus(s, i) == Pushed(Operator("Minus"), i + 1)

OnMultiply(s, i) == Pushed(Operator("Multiply"), i + 1)

OnDivide(s, i) == Pushed(Operator("Divide"), i + 1)

OnModulo(s, i) == Pushed(Operator("Modulo"), i + 1)

\* OnPower with the token of the '*' arm.
OnPower_AsMultiply(s, i) == Pushed(Operator("Multiply"), i + 1)

OnPower(s, i) == Pushed(Operator("Power"), i + 1)

OnEqual(s, i) ==
    IF Peek(s, i + 1) = "="
    THEN Pushed(Operator("Equal"), i + 2)
    ELSE Failed(UnexpectedChar("="), i + 1)

OnNot(s, i) ==
    IF Peek(s, i + 1) = "="
    THEN Pushed(Operator("NotEqual"), i + 2)
    ELSE Failed(UnexpectedChar("!"), i + 1)

OnLess(s, i) ==
    IF Peek(s, i + 1) = "="
    THEN Pushed(Operator("LessEqual"), i + 2)
    ELSE Pushed(Operator("Less"), i + 1)

\* OnGreater with '>' treated like '=': a '>' not followed by '=' is an error.
OnGreater_Strict(s, i) ==
    IF Peek(s, i + 1) = "="
    THEN Pushed(Operator("GreaterEqual"), i + 2)
    ELSE Failed(UnexpectedChar(">"), i + 1)

OnGreater(s, i) ==
    IF Peek(s, i + 1) = "="
    THEN Pushed(Operator("GreaterEqual"), i + 2)
    ELSE Pushed(Operator("Greater"), i + 1)

\* OnAmpersand with '&' treated like '<': a single '&' is an operator.
OnAmpersand_SingleFallback(s, i) ==
    IF Peek(s, i + 1) = "&"
    THEN Pushed(Operator("And"), i + 2)
    ELSE Pushed(Operator("And"), i + 1)

OnAmpersand(s, i) ==
    IF Peek(s, i + 1) = "&"
    THEN Pushed(Operator("And"), i + 2)
    ELSE Failed(UnexpectedChar("&"), i + 1)

OnPipe(s, i) ==
    IF Peek(s, i + 1) = "|"
    THEN Pushed(Operator("Or"), i + 2)
    ELSE Failed(UnexpectedChar("|"), i + 1)

\* DecodeEscape without the arms for 'n' and 't'.
DecodeEscape_Literal(escaped_char) == escaped_char

\* The match on escaped_char inside a string literal.
DecodeEscape(escaped_char) ==
    CASE escaped_char = "n" -> Newline
      [] escaped_char = "t" -> Tab
      [] escaped_char = Quote -> Quote
      [] OTHER -> escaped_char

\* ScanString with an unterminated literal treated like an unterminated escape.
RECURSIVE ScanString_StrictEnd(_, _, _)
ScanString_StrictEnd(s, i, string_literal) ==
    IF AtEnd(s, i) THEN Failed(UnexpectedEndOfString, i)
    ELSE IF s[i] = Backslash THEN
        IF AtEnd(s, i + 1)
        THEN Failed(UnexpectedEndOfString, i + 1)
        ELSE ScanString_StrictEnd(s, i + 2,
                Append(string_literal, DecodeEscape(s[i + 1])))
    ELSE IF s[i] = Quote
        THEN Pushed(StringLiteral(string_literal), i + 1)
    ELSE ScanString_StrictEnd(s, i + 1, Append(string_literal, s[i]))

\* The loop of the '"' arm from position i of s (after the opening quote) with
\* string_literal accumulated so far.
RECURSIVE ScanString(_, _, _)
ScanString(s, i, string_literal) ==
    IF AtEnd(s, i) THEN Pushed(StringLiteral(string_literal), i)
    ELSE IF s[i] = Backslash THEN
        IF AtEnd(s, i + 1)
        THEN Failed(UnexpectedEndOfString, i + 1)
        ELSE ScanString(s, i + 2, Append(string_literal, DecodeEscape(s[i + 1])))
    ELSE IF s[i] = Quote
        THEN Pushed(StringLiteral(string_literal), i + 1)
    ELSE ScanString(s, i + 1, Append(string_literal, s[i]))

OnQuote(s, i) == ScanString(s, i + 1, <<>>)

\* The first position from i on that holds no space.
RECURSIVE SkipSpaces(_, _)
SkipSpaces(s, i) ==
    IF ~AtEnd(s, i) /\ s[i] = Space THEN SkipSpaces(s, i + 1) ELSE i

\* NameToken looking for the '(' beyond any spaces that follow the name.
NameToken_PastSpaces(s, i, identifier) ==
    IF Peek(s, SkipSpaces(s, i)) = "("
    THEN Function(identifier)
    ELSE Identifier(identifier)

\* NameToken deciding on the text as well: a name that ends with '(' counts
\* as followed by one.
NameToken_ByText(s, i, identifier) ==
    IF \/ Peek(s, i) = "("
       \/ Len(identifier) > 0 /\ identifier[Len(identifier)] = "("
    THEN Function(identifier)
    ELSE Identifier(identifier)

\* The token the default arm pushes for a name whose accumulation stopped at
\* position i.
NameToken(s, i, identifier) ==
    IF Peek(s, i) = "(" THEN Function(identifier) ELSE Identifier(identifier)

\* ScanIdentifier with the escapes of a string literal: backslash-n and
\* backslash-t are decoded inside a name too.
RECURSIVE ScanIdentifier_Decoding(_, _, _)
ScanIdentifier_Decoding(s, i, identifier) ==
    IF AtEnd(s, i) THEN Pushed(NameToken(s, i, identifier), i)
    ELSE IF IsIdentifierChar(s[i])
        THEN ScanIdentifier_Decoding(s, i + 1, Append(identifier, s[i]))
    ELSE IF s[i] = Backslash THEN
        IF AtEnd(s, i + 1)
        THEN Failed(UnexpectedEndOfString, i + 1)
        ELSE ScanIdentifier_Decoding(s, i + 2,
                Append(identifier, DecodeEscape(s[i + 1])))
    ELSE Pushed(NameToken(s, i, identifier), i)

\* ScanIdentifier without the end-of-input check after a backslash: a final
\* backslash ends the name instead of failing.
RECURSIVE ScanIdentifier_NoEndCheck(_, _, _)
ScanIdentifier_NoEndCheck(s, i, identifier) ==
    IF AtEnd(s, i) THEN Pushed(NameToken(s, i, identifier), i)
    ELSE IF IsIdentifierChar(s[i])
        THEN ScanIdentifier_NoEndCheck(s, i + 1, Append(identifier, s[i]))
    ELSE IF s[i] = Backslash THEN
        IF AtEnd(s, i + 1)
        THEN Pushed(NameToken(s, i + 1, identifier), i + 1)
        ELSE ScanIdentifier_NoEndCheck(s, i + 2, Append(identifier, s[i + 1]))
    ELSE Pushed(NameToken(s, i, identifier), i)

\* The loop of the default arm from position i of s with identifier
\* accumulated so far, and the push that follows it.
RECURSIVE ScanIdentifier(_, _, _)
ScanIdentifier(s, i, identifier) ==
    IF AtEnd(s, i) THEN Pushed(NameToken(s, i, identifier), i)
    ELSE IF IsIdentifierChar(s[i])
        THEN ScanIdentifier(s, i + 1, Append(identifier, s[i]))
    ELSE IF s[i] = Backslash THEN
        IF AtEnd(s, i + 1)
        THEN Failed(UnexpectedEndOfString, i + 1)
        ELSE ScanIdentifier(s, i + 2, Append(identifier, s[i + 1]))
    ELSE Pushed(NameToken(s, i, identifier), i)

\* OnDefault consuming the character it could not accumulate: a name of
\* length zero is pushed and the scan moves on.
OnDefault_ConsumesUnknown(s, i) ==
    LET o == ScanIdentifier(s, i, <<>>)
    IN IF o.kind = "Push" /\ o.pos = i THEN Pushed(o.tok, i + 1) ELSE o

OnDefault(s, i) == ScanIdentifier(s, i, <<>>)

\* match ch: the arm taken on the character at position i of s.
Dispatch(s, i) ==
    CASE s[i] = Space -> OnSpace(s, i)
      [] s[i] = "(" -> OnOpenParen(s, i)
      [] s[i] = ")" -> OnCloseParen(s, i)
      [] s[i] = "," -> OnComma(s, i)
      [] s[i] = "+" -> OnPlus(s, i)
      [] s[i] = "-" -> OnMinus(s, i)
      [] s[i] = "*" -> OnMultiply(s, i)
      [] s[i] = "/" -> OnDivide(s, i)
      [] s[i] = "%" -> OnModulo(s, i)
      [] s[i] = "^" -> OnPower(s, i)
      [] s[i] = "=" -> OnEqual(s, i)
      [] s[i] = "!" -> OnNot(s, i)
      [] s[i] = "<" -> OnLess(s, i)
      [] s[i] = ">" -> OnGreater(s, i)
      [] s[i] = "&" -> OnAmpersand(s, i)
      [] s[i] = "|" -> OnPipe(s, i)
      [] s[i] = Quote -> OnQuote(s, i)
      [] OTHER -> OnDefault(s, i)

\* tokenize(s) as a function: the outer loop from position i with toks pushed
\* so far, to the value returned.
RECURSIVE Scan(_, _, _)
Scan(s, i, toks) ==
    IF AtEnd(s, i) THEN Ok(toks)
    ELSE LET o == Dispatch(s, i)
         IN CASE o.kind = "Skip" -> Scan(s, o.pos, toks)
              [] o.kind = "Err" -> Err(o.err)
              [] OTHER ->
                    IF Len(toks) >= Capacity(s) THEN Aborted
                    ELSE Scan(s, o.pos, Append(toks, o.tok))

tokenize(s) == Scan(s, 1, <<>>)

----------------------------------------------------------------------------
(* The outer loop as a state machine                                       *)

Init ==
    /\ expression \in Inputs
    /\ chars = 1
    /\ tokens = <<>>
    /\ result = Running

\* At with the error recorded but not returned: the loop goes on after it.
At_IgnoringError(ch) ==
    /\ result.kind \in {"Running", "Err"}
    /\ ~AtEnd(expression, chars)
    /\ expression[chars] = ch

\* The loop is at its head with ch peeked.
At(ch) ==
    /\ result.kind = "Running"
    /\ ~AtEnd(expression, chars)
    /\ expression[chars] = ch

\* The loop is at its head with a character of the default arm peeked.
AtDefault ==
    /\ result.kind = "Running"
    /\ ~AtEnd(expression, chars)
    /\ expression[chars] \notin ArmChars

\* The effect of an arm's outcome o on the state.  A push that finds the
\* vector at its capacity is left to AllocFail.
Apply(o) ==
    /\ o.kind = "Push" => Len(tokens) < Capacity(expression)
    /\ chars' = o.pos
    /\ tokens' = IF o.kind = "Push" THEN Append(tokens, o.tok) ELSE tokens
    /\ result' = IF o.kind = "Err" THEN Err(o.err) ELSE result
    /\ UNCHANGED expression

SpaceArm == At(Space) /\ Apply(OnSpace(expression, chars))

OpenParenArm == At("(") /\ Apply(OnOpenParen(expression, chars))

CloseParenArm == At(")") /\ Apply(OnCloseParen(expression, chars))

CommaArm == At(",") /\ Apply(OnComma(expression, chars))

PlusArm == At("+") /\ Apply(OnPlus(expression, chars))

MinusArm == At("-") /\ Apply(OnMinus(expression, chars))

MultiplyArm == At("*") /\ Apply(OnMultiply(expression, chars))

DivideArm == At("/") /\ Apply(OnDivide(expression, chars))

ModuloArm == At("%") /\ Apply(OnModulo(expression, chars))

PowerArm == At("^") /\ Apply(OnPower(expression, chars))

EqualArm == At("=") /\ Apply(OnEqual(expression, chars))

NotArm == At("!") /\ Apply(OnNot(expression, chars))

LessArm == At("<") /\ Apply(OnLess(expression, chars))

GreaterArm == At(">") /\ Apply(OnGreater(expression, chars))

AmpersandArm == At("&") /\ Apply(OnAmpersand(expression, chars))

PipeArm == At("|") /\ Apply(OnPipe(expression, chars))

QuoteArm == At(Quote) /\ Apply(OnQuote(expression, chars))

DefaultArm == AtDefault /\ Apply(OnDefault(expression, chars))

\* tokens.push when the vector is at its capacity: the allocation fails and
\* the process is aborted; the call returns neither Ok nor Err.
AllocFail ==
    /\ result.kind = "Running"
    /\ ~AtEnd(expression, chars)
    /\ Dispatch(expression, chars).kind = "Push"
    /\ Len(tokens) >= Capacity(expression)
    /\ result' = Aborted
    /\ UNCHANGED <<expression, chars, tokens>>

\* chars.peek() is None: the loop ends and the call returns Ok(tokens).
Finish ==
    /\ result.kind = "Running"
    /\ AtEnd(expression, chars)
    /\ result' = Ok(tokens)
    /\ UNCHANGED <<expression, chars, tokens>>

Next ==
    \/ SpaceArm
    \/ OpenParenArm
    \/ CloseParenArm
    \/ CommaArm
    \/ PlusArm
    \/ MinusArm
    \/ MultiplyArm
    \/ DivideArm
    \/ ModuloArm
    \/ PowerArm
    \/ EqualArm
    \/ NotArm
    \/ LessArm
    \/ GreaterArm
    \/ AmpersandArm
    \/ PipeArm
    \/ QuoteArm
    \/ DefaultArm
    \/ AllocFail
    \/ Finish

Spec == Init /\ [][Next]_vars

\* The call is one sequential computation: a step that can be taken is taken.
FairSpec == Spec /\ WF_vars(Next)

TypeOK ==
    /\ chars \in 1..(Len(expression) + 1)
    /\ Len(tokens) <= Capacity(expression)
    /\ result.kind \in {"Running", "Ok", "Err", "Abort"}

\* The state machine returns what the function computes.
StepsAgreeWithFunction ==
    result.kind # "Running" => result = tokenize(expression)

----------------------------------------------------------------------------
(* Claims                                                                  *)

\* The call has returned, or the process has ended.
Terminal == result.kind # "Running"

\* C1: for every finite input tokenize terminates: the scan eventually
\* reaches a final state that is Ok(tokens) or Err(error).
C1_Terminates == <>(result.kind \in {"Ok", "Err"})

\* The loop is at its head on a character that has no arm of its own and is
\* neither an identifier character nor a backslash ('@', tab).
AtOther ==
    /\ result.kind = "Running"
    /\ ~AtEnd(expression, chars)
    /\ expression[chars] \in OtherChars

\* C2: the default arm does not fail on an unrecognised character: the step
\* that meets it pushes an Identifier (possibly of length zero), leaves the
\* scan running and moves on towards the next character, so that the call
\* goes on to return Ok.
C2_OtherCharAccepted ==
    [][AtOther =>
        /\ result'.kind = "Running"
        /\ Len(tokens') = Len(tokens) + 1
        /\ tokens'[Len(tokens')].type = "Identifier"
        /\ chars' > chars]_vars

\* The number of backslashes s ends with.
RECURSIVE TrailingBackslashes(_)
TrailingBackslashes(s) ==
    IF Len(s) = 0 \/ s[Len(s)] # Backslash THEN 0
    ELSE 1 + TrailingBackslashes(SubSeq(s, 1, Len(s) - 1))

\* The final character of s is a backslash that no preceding backslash
\* escapes: the backslashes before it pair up.
EndsWithEscapeIntroducer(s) == TrailingBackslashes(s) % 2 = 1

\* C3 as stated: whenever tokenize returns for an input whose final character
\* is an escape-introducing backslash, it returns Err(UnexpectedEndOfString).
C3_TrailingEscapeAlwaysEndOfString ==
    (result.kind \in {"Ok", "Err"} /\ EndsWithEscapeIntroducer(expression))
        => result = Err(UnexpectedEndOfString)

\* C3 (amended): for an input whose final character is an escape-introducing
\* backslash the call never returns Ok; it returns
\* Err(UnexpectedEndOfString) whenever the scan has consumed the input up to
\* that backslash, and the only other error it returns is the UnexpectedChar
\* of a malformed operator met before the backslash.
C3_TrailingEscapeFails ==
    (Terminal /\ EndsWithEscapeIntroducer(expression)) =>
        /\ result.kind # "Ok"
        /\ AtEnd(expression, chars) => result = Err(UnexpectedEndOfString)
        /\ (result.kind = "Err" /\ ~AtEnd(expression, chars)) =>
                result.err[1] = "UnexpectedChar"

\* A name and then a final backslash, in the default arm.
C3_Witness_Identifier ==
    /\ expression = <<"a", Backslash>>
    /\ result = Err(UnexpectedEndOfString)

----------------------------------------------------------------------------
(* Escapes, read off the text                                              *)

Min(S) == CHOOSE m \in S : \A n \in S : m <= n

\* The number of consecutive backslashes that end just before position k of
\* s, none of them at or before position q.
BackslashRun(s, q, k) ==
    CHOOSE n \in 0..(k - 1 - q) :
        /\ \A j \in 1..n : s[k - j] = Backslash
        /\ n = k - 1 - q \/ s[k - n - 1] # Backslash

\* In a scan that starts after position q, position k is the one escaped by
\* a backslash: the backslashes before it do not pair up.
Escaped(s, q, k) == BackslashRun(s, q, k) % 2 = 1

\* What backslash-c stands for inside a string literal.
EscapeMeaning(c) ==
    IF c = "n" THEN Newline ELSE IF c = "t" THEN Tab ELSE c

\* The unescaped quotes after the opening quote at position q.
ClosingQuotes(s, q) ==
    {k \in (q + 1)..Len(s) : s[k] = Quote /\ ~Escaped(s, q, k)}

\* The decoded characters of positions k..(e - 1) of the literal opened at q:
\* an escaped character by its meaning, an escape introducer dropped, any
\* other character as it is.
RECURSIVE Payload(_, _, _, _)
Payload(s, q, k, e) ==
    IF k >= e THEN <<>>
    ELSE (IF Escaped(s, q, k) THEN <<EscapeMeaning(s[k])>>
          ELSE IF s[k] = Backslash THEN <<>>
          ELSE <<s[k]>>) \o Payload(s, q, k + 1, e)

\* The literal opened at position q is closed by no quote, and the input does
\* not end on an escape introducer.
Unterminated(s, q) ==
    ClosingQuotes(s, q) = {} /\ ~Escaped(s, q, Len(s) + 1)

\* C4: Err(UnexpectedEndOfString) is returned only when the input ends right
\* after an escape introducer; a string literal that the input leaves open
\* without a trailing escape introducer is pushed as a StringLiteral holding
\* the decoded characters after the opening quote, the scan is then at the
\* end of the input, and the call returns Ok with that token last.
C4_EndOfStringOnlyAfterEscape ==
    [][/\ result' = Err(UnexpectedEndOfString) =>
            (EndsWithEscapeIntroducer(expression) /\ AtEnd(expression, chars'))
       /\ (At(Quote) /\ Unterminated(expression, chars)) =>
            /\ tokens' = Append(tokens, StringLiteral(
                    Payload(expression, chars, chars + 1, Len(expression) + 1)))
            /\ AtEnd(expression, chars')
            /\ result' = Running
       /\ (result.kind = "Running" /\ AtEnd(expression, chars)) =>
            result' = Ok(tokens)]_vars

\* An open literal with an escape in it, returned as one decoded token.
C4_Witness_OpenLiteral ==
    /\ expression = <<Quote, "(", Backslash, "n">>
    /\ result = Ok(<<StringLiteral(<<"(", Newline>>)>>)

\* A step at lead: followed by second it pushes Operator(op) and consumes
\* both characters, otherwise the call returns Err(UnexpectedChar(lead)).
TwoCharOrError(lead, second, op) ==
    At(lead) =>
        IF Peek(expression, chars + 1) = second
        THEN /\ tokens' = Append(tokens, Operator(op))
             /\ chars' = chars + 2
             /\ result' = Running
        ELSE result' = Err(UnexpectedChar(lead))

\* C5: '==', '!=', '&&' and '||' push Equal, NotEqual, And and Or; a lead
\* character '=', '!', '&' or '|' followed by anything else, or by nothing,
\* makes the call return Err(UnexpectedChar(lead)); and every UnexpectedChar
\* returned carries one of these four characters.
C5_TwoCharOperators ==
    [][/\ TwoCharOrError("=", "=", "Equal")
       /\ TwoCharOrError("!", "=", "NotEqual")
       /\ TwoCharOrError("&", "&", "And")
       /\ TwoCharOrError("|", "|", "Or")
       /\ (result'.kind = "Err" /\ result'.err[1] = "UnexpectedChar") =>
            result'.err[2] \in {"=", "!", "&", "|"}]_vars

\* A lead character followed by a space.
C5_Witness_LeadThenSpace ==
    /\ expression = <<"&", Space, "&">>
    /\ result = Err(UnexpectedChar("&"))

\* A step at lead never fails: followed by '=' it pushes Operator(both) and
\* consumes both characters, otherwise it pushes Operator(single) and consumes
\* the lead character alone.
TwoCharOrSingle(lead, single, both) ==
    At(lead) =>
        /\ result' = Running
        /\ IF Peek(expression, chars + 1) = "="
           THEN tokens' = Append(tokens, Operator(both)) /\ chars' = chars + 2
           ELSE tokens' = Append(tokens, Operator(single)) /\ chars' = chars + 1

\* C6: '<' and '>' never cause an error: with '=' next they push LessEqual /
\* GreaterEqual, otherwise Less / Greater with the next character left for
\* the next token; "<<=" gives [Less, LessEqual], "<(" gives
\* [Less, OpenParenthesis], and likewise for '>'.
C6_LessGreater ==
    [][/\ TwoCharOrSingle("<", "Less", "LessEqual")
       /\ TwoCharOrSingle(">", "Greater", "GreaterEqual")
       /\ (Terminal' /\ expression = <<"<", "<", "=">>) =>
            result' = Ok(<<Operator("Less"), Operator("LessEqual")>>)
       /\ (Terminal' /\ expression = <<"<", "(">>) =>
            result' = Ok(<<Operator("Less"), OpenParenthesis>>)
       /\ (Terminal' /\ expression = <<">", ">", "=">>) =>
            result' = Ok(<<Operator("Greater"), Operator("GreaterEqual")>>)
       /\ (Terminal' /\ expression = <<">", "(">>) =>
            result' = Ok(<<Operator("Greater"), OpenParenthesis>>)]_vars

C6_Witness_GreaterGreaterEqual ==
    /\ expression = <<">", ">", "=">>
    /\ result.kind = "Ok"

\* The positions where a name scanned from position q + 1 on can stop: an
\* unescaped position that is the end of the input or holds neither an
\* identifier character nor a backslash.
NameStops(s, q) ==
    {k \in (q + 1)..(Len(s) + 1) :
        /\ ~Escaped(s, q, k)
        /\ k = Len(s) + 1 \/ (~IsIdentifierChar(s[k]) /\ s[k] # Backslash)}

\* The characters of positions k..(e - 1) of the name scanned from q + 1 on:
\* an escape introducer dropped, every other character as it is.
RECURSIVE NameText(_, _, _, _)
NameText(s, q, k, e) ==
    IF k >= e THEN <<>>
    ELSE (IF ~Escaped(s, q, k) /\ s[k] = Backslash THEN <<>> ELSE <<s[k]>>)
            \o NameText(s, q, k + 1, e)

\* C7: the name the default arm accumulates is pushed as Function(name) if
\* and only if the character at which accumulation stopped is '(', and as
\* Identifier(name) otherwise (a push the allocator refuses aside); the '(' is
\* not consumed and the next step pushes it as OpenParenthesis; with a space
\* between the name and '(' the result is Identifier(name), OpenParenthesis.
C7_FunctionIffOpenParen ==
    [][/\ (AtDefault /\ NameStops(expression, chars - 1) # {}
                /\ result' # Aborted) =>
            LET e == Min(NameStops(expression, chars - 1))
                name == NameText(expression, chars - 1, chars, e)
            IN /\ tokens' = Append(tokens,
                                IF Peek(expression, e) = "("
                                THEN Function(name)
                                ELSE Identifier(name))
               /\ chars' = e
               /\ result' = Running
       /\ (Len(tokens) > 0 /\ tokens[Len(tokens)].type = "Function"
                /\ result.kind = "Running") =>
            /\ tokens' = Append(tokens, OpenParenthesis)
            /\ chars' = chars + 1
       /\ (Terminal' /\ expression = <<"a", "(">>) =>
            result' = Ok(<<Function(<<"a">>), OpenParenthesis>>)
       /\ (Terminal' /\ expression = <<"a", Space, "(">>) =>
            result' = Ok(<<Identifier(<<"a">>), OpenParenthesis>>)]_vars

C7_Witness_SpaceBeforeParen ==
    /\ expression = <<"a", Space, "(">>
    /\ result.kind = "Ok"

\* C8: a string literal with a closing quote is pushed as exactly one
\* StringLiteral whose payload is the decoded characters between the opening
\* quote and the first unescaped quote after it (backslash-n a newline,
\* backslash-t a tab, backslash-c the character c); the scan goes on after the
\* closing quote, and nothing inside the literal is pushed as a token or
\* returned as an error.
C8_StringLiteralDecoded ==
    [][(At(Quote) /\ ClosingQuotes(expression, chars) # {}) =>
            LET e == Min(ClosingQuotes(expression, chars))
            IN /\ tokens' = Append(tokens, StringLiteral(
                                Payload(expression, chars, chars + 1, e)))
               /\ chars' = e + 1
               /\ result' = Running]_vars

\* A literal holding an escaped quote and an escaped n.
C8_Witness_EscapesInLiteral ==
    /\ expression = <<Quote, Backslash, Quote, Backslash, "n", Quote>>
    /\ result = Ok(<<StringLiteral(<<Quote, Newline>>)>>)

----------------------------------------------------------------------------
(* Rendering tokens back to text                                           *)

\* The lexeme each of the 14 operators is read from.
LexemeOf(op) ==
    CASE op = "Plus" -> <<"+">>
      [] op = "Minus" -> <<"-">>
      [] op = "Multiply" -> <<"*">>
      [] op = "Divide" -> <<"/">>
      [] op = "Modulo" -> <<"%">>
      [] op = "Power" -> <<"^">>
      [] op = "Equal" -> <<"=", "=">>
      [] op = "NotEqual" -> <<"!", "=">>
      [] op = "Greater" -> <<">">>
      [] op = "Less" -> <<"<">>
      [] op = "GreaterEqual" -> <<">", "=">>
      [] op = "LessEqual" -> <<"<", "=">>
      [] op = "And" -> <<"&", "&">>
      [] op = "Or" -> <<"|", "|">>

\* The minimal textual form of a token: the lexeme of an operator, and what
\* Display writes for every other token (the character of a structural
\* token, the text of an Identifier or Function, the quoted text of a
\* StringLiteral).
MinimalText(tok) ==
    IF tok.type = "Operator" THEN LexemeOf(tok.val[1]) ELSE Display(tok)

\* The renderings of toks joined with single spaces.
Render(toks) == JoinWithSpaces([k \in 1..Len(toks) |-> MinimalText(toks[k])])

\* C9 as stated: for every input that tokenizes successfully, tokenizing the
\* rendering of its tokens yields the same token sequence.
C9_RenderRoundTrip ==
    result.kind = "Ok" => tokenize(Render(result.tokens)) = result

\* Tokens whose rendering reads back as themselves: no Function, every
\* Identifier made of identifier characters only, no StringLiteral holding a
\* quote or a backslash.
ReadsBack(tok) ==
    /\ tok.type # "Function"
    /\ tok.type = "Identifier" =>
            \A k \in 1..Len(tok.val) : IsIdentifierChar(tok.val[k])
    /\ tok.type = "StringLiteral" =>
            \A k \in 1..Len(tok.val) : tok.val[k] \notin {Quote, Backslash}

\* C9 (amended): for every input that tokenizes successfully to a sequence
\* with no Function token, no Identifier holding a character other than
\* alphanumerics, '_' and '.', and no StringLiteral holding a quote or a
\* backslash, tokenizing the rendering of its tokens yields the same token
\* sequence.
C9_RenderRoundTripPlainTokens ==
    (result.kind = "Ok" /\ \A k \in 1..Len(result.tokens) :
                                ReadsBack(result.tokens[k]))
        => tokenize(Render(result.tokens)) = result

\* A name, an operator and an open literal written without spaces: the
\* rendering differs from the input and reads back as the same tokens.
C9_Witness_RenderingDiffers ==
    /\ expression = <<"a", "<", Quote>>
    /\ result = Ok(<<Identifier(<<"a">>), Operator("Less"), StringLiteral(<<>>)>>)
    /\ Render(result.tokens) # expression

\* C10: an input made of operator lexemes and structural characters
\* separated by exactly one space each tokenizes successfully, and the
\* lexemes of the returned tokens joined with single spaces are the input.
C10_OperatorRoundTrip ==
    (Terminal /\ expression \in OperatorInputs) =>
        /\ result.kind = "Ok"
        /\ Render(result.tokens) = expression

C10_Witness_ThreeTwoCharLexemes ==
    /\ expression = <<"=", "=", Space, "<", "=", Space, "|", "|">>
    /\ result = Ok(<<Operator("Equal"), Operator("LessEqual"), Operator("Or")>>)

\* The 30 tokens of the worked example, in source order.
WorkedTokens ==
    <<OpenParenthesis,
      Identifier(<<"2">>),
      Operator("Plus"),
      Identifier(<<"3">>),
      Operator("Multiply"),
      Function(<<"s", "i", "n">>),
      OpenParenthesis,
      Identifier(<<"π">>),
      Operator("Divide"),
      Identifier(<<"4">>),
      CloseParenthesis,
      CloseParenthesis,
      Operator("Divide"),
      OpenParenthesis,
      Function(<<"s", "q", "r", "t">>),
      OpenParenthesis,
      Identifier(<<"9">>),
      CloseParenthesis,
      Operator("Plus"),
      Function(<<"l", "o", "g">>),
      OpenParenthesis,
      Identifier(<<"1", "0", "0">>),
      Comma,
      Identifier(<<"1", "0">>),
      CloseParenthesis,
      CloseParenthesis,
      Operator("Minus"),
      Identifier(<<"2">>),
      Operator("Power"),
      Identifier(<<"3">>)>>

\* C11: the worked example tokenizes successfully to exactly its 30 tokens:
\* sin, sqrt and log, each directly followed by '(', are Function tokens, the
\* digit runs and 'π' are Identifier tokens, and spaces produce no token.
C11_WorkedExample ==
    (Terminal /\ expression = WorkedExample) => result = Ok(WorkedTokens)

C11_Witness_WorkedExampleDone ==
    /\ expression = WorkedExample
    /\ result.kind = "Ok"
    /\ Len(result.tokens) = 30

\* C12: a top-level space is consumed without pushing a token or returning an
\* error, and an input of zero or more spaces and nothing else returns Ok with
\* the empty token sequence.
C12_SpacesGiveNoToken ==
    [][/\ At(Space) =>
            (tokens' = tokens /\ chars' = chars + 1 /\ result' = Running)
       /\ (Terminal' /\ \A k \in 1..Len(expression) : expression[k] = Space) =>
            result' = Ok(<<>>)]_vars

C12_Witness_ThreeSpaces ==
    /\ expression = <<Space, Space, Space>>
    /\ result = Ok(<<>>)

\* The token each structural or arithmetic character stands for.
SingleTokenOf(c) ==
    CASE c = "(" -> OpenParenthesis
      [] c = ")" -> CloseParenthesis
      [] c = "," -> Comma
      [] c = "+" -> Operator("Plus")
      [] c = "-" -> Operator("Minus")
      [] c = "*" -> Operator("Multiply")
      [] c = "/" -> Operator("Divide")
      [] c = "%" -> Operator("Modulo")
      [] c = "^" -> Operator("Power")

\* C13: each top-level '(' ')' ',' '+' '-' '*' '/' '%' '^' pushes exactly its
\* one token and consumes exactly that character, whatever follows; an input
\* of n such characters gives n tokens in source order; "+=" pushes Plus and
\* then handles '=' on its own.
C13_SingleCharTokens ==
    [][/\ \A c \in SingleChars :
            At(c) => /\ tokens' = Append(tokens, SingleTokenOf(c))
                     /\ chars' = chars + 1
                     /\ result' = Running
       /\ (Terminal' /\ \A k \in 1..Len(expression) :
                            expression[k] \in SingleChars) =>
            result' = Ok([k \in 1..Len(expression) |->
                            SingleTokenOf(expression[k])])
       /\ (Terminal' /\ expression = <<"+", "=">>) =>
            result' = Err(UnexpectedChar("="))
       /\ (Terminal' /\ expression = <<"+", "=", "=">>) =>
            result' = Ok(<<Operator("Plus"), Operator("Equal")>>)]_vars

C13_Witness_ThreeSingles ==
    /\ expression = <<"^", "%", "(">>
    /\ result = Ok(<<Operator("Power"), Operator("Modulo"), OpenParenthesis>>)

\* Alphanumeric characters, '_' and '.'.
PlainNameChars == Alphanumeric \cup {"_", "."}

\* The Identifier tokens among toks.
IdentifiersOf(toks) ==
    {toks[k] : k \in {j \in 1..Len(toks) : toks[j].type = "Identifier"}}

\* C14 as stated: every Identifier token returned carries a text made only of
\* alphanumeric characters, '_' and '.'.
C14_IdentifierTextPlain ==
    result.kind = "Ok" =>
        \A tok \in IdentifiersOf(result.tokens) :
            \A j \in 1..Len(tok.val) : tok.val[j] \in PlainNameChars

\* Character c stands right after a backslash somewhere in s.
FollowsBackslash(s, c) ==
    \E k \in 2..Len(s) : s[k - 1] = Backslash /\ s[k] = c

\* C14 (amended): every Identifier token returned carries a text made only of
\* alphanumeric characters, '_', '.' and characters that follow a backslash
\* in the input; so for an input without a backslash, of alphanumeric
\* characters, '_' and '.' only.
C14_IdentifierTextPlainOrEscaped ==
    result.kind = "Ok" =>
        \A tok \in IdentifiersOf(result.tokens) :
            \A j \in 1..Len(tok.val) :
                \/ tok.val[j] \in PlainNameChars
                \/ FollowsBackslash(expression, tok.val[j])

\* A name that holds an escaped operator character.
C14_Witness_EscapedPlus ==
    /\ expression = <<"a", Backslash, "+">>
    /\ result = Ok(<<Identifier(<<"a", "+">>)>>)

\* C15: in the identifier scan a backslash is consumed and the character
\* after it is appended to the name as it is, whatever it is, without the
\* decoding of string literals and without ending the name: the text pushed
\* is the scanned characters less the escape introducers; "a", backslash, c
\* gives Identifier("ac") for every c (so backslash-n gives 'n'), the name
\* goes on after an escaped character, and an escaped character (a '(' too)
\* is part of the name, not what decides Function.
C15_IdentifierEscapeLiteral ==
    [][/\ (AtDefault /\ NameStops(expression, chars - 1) # {}
                /\ result' # Aborted) =>
            LET e == Min(NameStops(expression, chars - 1))
            IN /\ Len(tokens') = Len(tokens) + 1
               /\ tokens'[Len(tokens')].val =
                        NameText(expression, chars - 1, chars, e)
               /\ chars' = e
       /\ \A c \in Alphabet :
            /\ (Terminal' /\ expression = <<"a", Backslash, c>>) =>
                    result' = Ok(<<Identifier(<<"a", c>>)>>)
            /\ (Terminal' /\ expression = <<Backslash, c, "a">>) =>
                    result' = Ok(<<Identifier(<<c, "a">>)>>)
            /\ (Terminal' /\ expression = <<Backslash, c, "(">>) =>
                    result' = Ok(<<Function(<<c>>), OpenParenthesis>>)]_vars

\* An escaped '(' inside a name.
C15_Witness_EscapedParen ==
    /\ expression = <<"a", Backslash, "(">>
    /\ result = Ok(<<Identifier(<<"a", "(">>)>>)

\* C16: the error returned is that of the leftmost violation in scan order:
\* it is the error of an arm that starts at a position before which the input
\* tokenizes without a violation, to exactly the tokens pushed so far; those
\* tokens are not part of the result; "= &" gives UnexpectedChar('='), and a
\* malformed operator before a trailing backslash gives UnexpectedChar.
C16_FirstViolationWins ==
    /\ result.kind = "Err" =>
        /\ result.tokens = <<>>
        /\ \E start \in 1..Len(expression) :
            /\ tokenize(SubSeq(expression, 1, start - 1)) = Ok(tokens)
            /\ Dispatch(expression, start) = Failed(result.err, chars)
    /\ (Terminal /\ expression = <<"=", Space, "&">>) =>
            result = Err(UnexpectedChar("="))
    /\ (Terminal /\ expression = <<"&", Space, "=">>) =>
            result = Err(UnexpectedChar("&"))
    /\ (Terminal /\ expression = <<"a", "&", Backslash>>) =>
            result = Err(UnexpectedChar("&"))
    /\ (Terminal /\ expression = <<"!", Backslash>>) =>
            result = Err(UnexpectedChar("!"))

\* A token, then a malformed operator, then a trailing backslash.
C16_Witness_TwoViolations ==
    /\ expression = <<"a", "&", Backslash>>
    /\ tokens = <<Identifier(<<"a">>)>>
    /\ result = Err(UnexpectedChar("&"))

\* C17: in every token sequence returned as Ok each Function token is
\* immediately followed by an OpenParenthesis token.
C17_FunctionThenOpenParen ==
    result.kind = "Ok" =>
        \A k \in 1..Len(result.tokens) :
            result.tokens[k].type = "Function" =>
                /\ k < Len(result.tokens)
                /\ result.tokens[k + 1] = OpenParenthesis

C17_Witness_CallThenName ==
    /\ expression = <<"a", "(", "n">>
    /\ result =
        Ok(<<Function(<<"a">>), OpenParenthesis, Identifier(<<"n">>)>>)

\* C18: in every token sequence returned as Ok every Identifier and every
\* Function has a non-empty text, and the sequence holds at most as many
\* tokens as the input holds characters.
C18_NamesNonEmptyTokensBounded ==
    result.kind = "Ok" =>
        /\ \A k \in 1..Len(result.tokens) :
                result.tokens[k].type \in {"Identifier", "Function"} =>
                    Len(result.tokens[k].val) > 0
        /\ Len(result.tokens) <= Len(expression)

\* As many tokens as characters, a name among them.
C18_Witness_OneTokenPerChar ==
    /\ expression = <<"a", "(", ")">>
    /\ result.kind = "Ok"
    /\ Len(result.tokens) = Len(expression)

====
